---- MODULE Spec2Model ----
(***************************************************************************)
(* Model of the two concurrent mechanisms of the ToDo-List API:            *)
(*   - middleware.RateLimiter (sliding-window log, registry under a lock,  *)
(*     background cleanup goroutine);                                      *)
(*   - the worker-pool pipelines of taskService.SearchTasks and            *)
(*     taskService.GetUserCategories.                                      *)
(***************************************************************************)
EXTENDS Integers, Sequences, FiniteSets, Bags, TLC

\* ------------------------------------------------------------------ bounds
MaxTime == 3
MaxCalls == 4
MaxTasks == 3

Keys == {"clientA", "clientB"}
Callers == {"h1", "h2"}
Limits == {1, 2}
Windows == {1, 2}

\* ------------------------------------------------------------------ state
VARIABLES
    clock,          \* the monotonic wall clock read by time.Now()
    limit,          \* RateLimiter.limit
    window,         \* RateLimiter.window
    requests,       \* RateLimiter.requests: map key -> sequence of instants
    mutex,          \* RateLimiter.mutex: "none", a caller, or "cleanup"
    pc,             \* position of every caller inside Allow
    key,            \* Allow's parameter key, per caller
    now,            \* Allow's local now, per caller
    validRequests,  \* Allow's local validRequests, per caller
    result,         \* Allow's return value, per caller
    cleanupPc,      \* position of the cleanup goroutine
    cleanupNow,     \* cleanup's local now of the current pass
    rateLimited,    \* whether the engine's chain holds RateLimitMiddleware
    calls,          \* number of Allow calls issued so far
    before,         \* history: the registry when the lock holder took the lock
    log             \* history: decided Allow calls, in lock order

VARIABLES
    op,             \* which service method runs: "SearchTasks" or "GetUserCategories"
    stored,         \* the user's tasks held by the repository
    fetchFails,     \* whether GetTasksByUserIDPaginated returns an error
    query,          \* SearchTasks' parameter query
    filters,        \* the filters argument of SearchTasks
    mainPc,         \* position of the calling goroutine
    tasks,          \* the local tasks of the service method
    waited,         \* the caller's loop counter i of the wait loop
    fetchPc,        \* position of GetUserCategories' fetch goroutine
    workers,        \* the worker goroutines: the bag of their local states
    prodPc,         \* position of the producer goroutine
    prodIdx,        \* the producer's loop index into tasks
    taskChanClosed, \* close(taskChan) has run
    collPc,         \* position of SearchTasks' collector goroutine
    collTask,       \* the collector's local t
    finished,       \* the collector's local finished
    resultChanClosed, \* close(resultChan) has run
    filteredTasks,  \* SearchTasks' shared slice filteredTasks
    categoryMap,    \* GetUserCategories' shared categoryMap (its key set)
    mu,             \* GetUserCategories' mutex mu: TRUE while a worker holds it
    ret,            \* the value returned to the caller
    evals           \* history: how often each record's predicate was evaluated

plVars == <<op, stored, fetchFails, query, filters, mainPc, tasks, waited, fetchPc, workers,
            prodPc, prodIdx, taskChanClosed, collPc, collTask, finished,
            resultChanClosed, filteredTasks, categoryMap, mu, ret, evals>>

rlVars == <<clock, limit, window, requests, mutex, pc, key, now, validRequests,
            result, cleanupPc, cleanupNow, rateLimited, calls, before, log>>

vars == <<rlVars, plVars>>

NoKey == "-"
EmptyRegistry == [k \in {} |-> <<>>]

\* ------------------------------------------------------- RateLimiter helpers
AfterOrEqual(t, u) == t >= u
\* time.Time.After
After(t, u) == t > u

LookupShared(reg, k) ==
    IF DOMAIN reg = {} THEN <<>> ELSE reg[CHOOSE x \in DOMAIN reg : TRUE]
\* rl.requests[key]: a missing key reads as the nil slice
Lookup(reg, k) == IF k \in DOMAIN reg THEN reg[k] ELSE <<>>

\* the pruning loop: keep the requests that are After(cutoff)
FilterValid(reqs, cutoff) == SelectSeq(reqs, LAMBDA r : After(r, cutoff))

AllowCutoffShort(t) == t - window + 1
\* cutoff := now.Add(-rl.window)
AllowCutoff(t) == t - window

CleanupCutoffWide(t) == t - window * 3
CleanupCutoffNow(t) == t
CleanupCutoffWindow(t) == t - window
\* cutoff := now.Add(-rl.window * 2)
CleanupCutoff(t) == t - window * 2

LimitExceededOffByOne(v) == Len(v) + 1 >= limit
LimitExceededStrict(v) == Len(v) > limit
LimitExceededNever(v) == FALSE
\* if len(validRequests) >= rl.limit
LimitExceeded(v) == Len(v) >= limit

StoreDropped(reg, k, v) == reg
\* rl.requests[key] = validRequests
Store(reg, k, v) == [x \in DOMAIN reg \cup {k} |-> IF x = k THEN v ELSE reg[x]]

CleanupPassKeepAll(reg, t) == reg
CleanupPassNoDelete(reg, t) == [k \in DOMAIN reg |-> FilterValid(reg[k], CleanupCutoff(t))]
\* one pass of the cleanup loop body over the whole map
CleanupPass(reg, t) ==
    LET keep == {k \in DOMAIN reg : Len(FilterValid(reg[k], CleanupCutoff(t))) # 0}
    IN  [k \in keep |-> FilterValid(reg[k], CleanupCutoff(t))]

MutexIgnored == TRUE
\* rl.mutex.Lock() proceeds only when nobody holds the mutex
MutexFree == mutex = "none"

\* ------------------------------------------------------------- RateLimiter
InitRL ==
    /\ clock = 0
    /\ limit \in Limits
    /\ window \in Windows
    /\ requests = EmptyRegistry
    /\ mutex = "none"
    /\ pc = [p \in Callers |-> "idle"]
    /\ key = [p \in Callers |-> NoKey]
    /\ now = [p \in Callers |-> 0]
    /\ validRequests = [p \in Callers |-> <<>>]
    /\ result = [p \in Callers |-> FALSE]
    /\ cleanupPc = "wait"
    /\ cleanupNow = 0
    /\ rateLimited \in BOOLEAN
    /\ rateLimited = FALSE => (limit = 1 /\ window = 1)
    /\ calls = 0
    /\ before = EmptyRegistry
    /\ log = <<>>

\* the clock advances
Tick ==
    /\ clock < MaxTime
    /\ clock' = clock + 1
    /\ UNCHANGED <<limit, window, requests, mutex, pc, key, now, validRequests,
                   result, cleanupPc, calls, before, log>>
    /\ UNCHANGED <<cleanupNow, rateLimited>>
    /\ UNCHANGED plVars

\* a request of client k arrives at an engine whose chain holds the middleware:
\* the middleware calls limiter.Allow(k)
Call(p, k) ==
    /\ pc[p] = "idle"
    /\ rateLimited
    /\ calls < MaxCalls
    /\ calls' = calls + 1
    /\ pc' = [pc EXCEPT ![p] = "lock"]
    /\ key' = [key EXCEPT ![p] = k]
    /\ UNCHANGED <<clock, limit, window, requests, mutex, now, validRequests,
                   result, cleanupPc, before, log>>
    /\ UNCHANGED <<cleanupNow, rateLimited>>
    /\ UNCHANGED plVars

\* rl.mutex.Lock(); now := time.Now()
Lock(p) ==
    /\ pc[p] = "lock"
    /\ MutexFree
    /\ mutex' = p
    /\ before' = requests
    /\ now' = [now EXCEPT ![p] = clock]
    /\ pc' = [pc EXCEPT ![p] = "filter"]
    /\ UNCHANGED <<clock, limit, window, requests, key, validRequests,
                   result, cleanupPc, calls, log>>
    /\ UNCHANGED <<cleanupNow, rateLimited>>
    /\ UNCHANGED plVars

\* requests := rl.requests[key]; the loop that fills validRequests
Filter(p) ==
    /\ pc[p] = "filter"
    /\ validRequests' = [validRequests EXCEPT
                           ![p] = FilterValid(Lookup(requests, key[p]), AllowCutoff(now[p]))]
    /\ pc' = [pc EXCEPT ![p] = "check"]
    /\ UNCHANGED <<clock, limit, window, requests, mutex, key, now,
                   result, cleanupPc, calls, before, log>>
    /\ UNCHANGED <<cleanupNow, rateLimited>>
    /\ UNCHANGED plVars

\* a check that records the attempt it rejects
CheckRecording(p) ==
    /\ pc[p] = "check"
    /\ IF LimitExceeded(validRequests[p])
       THEN /\ requests' = Store(requests, key[p], Append(validRequests[p], now[p]))
            /\ result' = [result EXCEPT ![p] = FALSE]
            /\ log' = Append(log, [key |-> key[p], at |-> now[p], ok |-> FALSE])
            /\ pc' = [pc EXCEPT ![p] = "unlock"]
       ELSE /\ pc' = [pc EXCEPT ![p] = "append"]
            /\ UNCHANGED <<requests, result, log>>
    /\ UNCHANGED <<clock, limit, window, mutex, key, now, validRequests,
                   cleanupPc, calls, before>>
    /\ UNCHANGED <<cleanupNow, rateLimited>>
    /\ UNCHANGED plVars

\* if len(validRequests) >= rl.limit { return false }
Check(p) ==
    /\ pc[p] = "check"
    /\ IF LimitExceeded(validRequests[p])
       THEN /\ result' = [result EXCEPT ![p] = FALSE]
            /\ log' = Append(log, [key |-> key[p], at |-> now[p], ok |-> FALSE])
            /\ pc' = [pc EXCEPT ![p] = "unlock"]
       ELSE /\ pc' = [pc EXCEPT ![p] = "append"]
            /\ UNCHANGED <<result, log>>
    /\ UNCHANGED <<clock, limit, window, requests, mutex, key, now, validRequests,
                   cleanupPc, calls, before>>
    /\ UNCHANGED <<cleanupNow, rateLimited>>
    /\ UNCHANGED plVars

\* validRequests = append(validRequests, now); rl.requests[key] = validRequests; return true
Admit(p) ==
    /\ pc[p] = "append"
    /\ validRequests' = [validRequests EXCEPT ![p] = Append(validRequests[p], now[p])]
    /\ requests' = Store(requests, key[p], validRequests'[p])
    /\ result' = [result EXCEPT ![p] = TRUE]
    /\ log' = Append(log, [key |-> key[p], at |-> now[p], ok |-> TRUE])
    /\ pc' = [pc EXCEPT ![p] = "unlock"]
    /\ UNCHANGED <<clock, limit, window, mutex, key, now, cleanupPc, calls, before>>
    /\ UNCHANGED <<cleanupNow, rateLimited>>
    /\ UNCHANGED plVars

\* the status and the retry-after value of the middleware's answer to a rejection
StatusTooManyRequests == 429
RetryAfterSeconds == 60
DenyResponse == [status |-> StatusTooManyRequests, retryAfter |-> RetryAfterSeconds]

\* where the middleware goes once Allow has returned ok: c.Next(), or the
\* rejection (c.Header, c.JSON, c.Abort)
AfterAllow(ok) == IF ok THEN "handler" ELSE "aborted"

\* defer rl.mutex.Unlock(): Allow returns result[p] and its locals are gone; the
\* middleware answers the rejection and aborts, or calls c.Next()
Unlock(p) ==
    /\ pc[p] = "unlock"
    /\ mutex' = "none"
    /\ before' = EmptyRegistry
    /\ key' = [key EXCEPT ![p] = NoKey]
    /\ now' = [now EXCEPT ![p] = 0]
    /\ validRequests' = [validRequests EXCEPT ![p] = <<>>]
    /\ pc' = [pc EXCEPT ![p] = AfterAllow(result[p])]
    /\ UNCHANGED <<clock, limit, window, requests, result, cleanupPc, calls, log>>
    /\ UNCHANGED <<cleanupNow, rateLimited>>
    /\ UNCHANGED plVars

\* a request arrives at an engine built without RateLimitMiddleware: the route
\* handler runs at once
Route(p, k) ==
    /\ pc[p] = "idle"
    /\ ~rateLimited
    /\ calls < MaxCalls
    /\ calls' = calls + 1
    /\ pc' = [pc EXCEPT ![p] = "handler"]
    /\ UNCHANGED <<clock, limit, window, requests, mutex, key, now, validRequests,
                   result, cleanupPc, before, log>>
    /\ UNCHANGED <<cleanupNow, rateLimited>>
    /\ UNCHANGED plVars

\* the request is over (answered by the route handler or by the rejection)
Finish(p) ==
    /\ pc[p] \in {"handler", "aborted"}
    /\ pc' = [pc EXCEPT ![p] = "idle"]
    /\ result' = [result EXCEPT ![p] = FALSE]
    /\ UNCHANGED <<clock, limit, window, requests, mutex, key, now, validRequests,
                   cleanupPc, calls, before, log>>
    /\ UNCHANGED <<cleanupNow, rateLimited>>
    /\ UNCHANGED plVars

\* cleanup: the ticker fires; rl.mutex.Lock(); now := time.Now(); the loop over
\* rl.requests (nobody else can read the map while the lock is held)
CleanupSweep ==
    /\ cleanupPc = "wait"
    /\ rateLimited
    /\ MutexFree
    /\ mutex' = "cleanup"
    /\ cleanupNow' = clock
    /\ before' = requests
    /\ requests' = CleanupPass(requests, clock)
    /\ cleanupPc' = "swept"
    /\ UNCHANGED <<clock, limit, window, pc, key, now, validRequests,
                   result, calls, log>>
    /\ UNCHANGED rateLimited
    /\ UNCHANGED plVars

\* a pass that ends without releasing the mutex
CleanupKeepsLock ==
    /\ cleanupPc = "swept"
    /\ cleanupNow' = 0
    /\ before' = EmptyRegistry
    /\ cleanupPc' = "wait"
    /\ UNCHANGED <<clock, limit, window, requests, mutex, pc, key, now, validRequests,
                   result, calls, log>>
    /\ UNCHANGED rateLimited
    /\ UNCHANGED plVars

\* cleanup: rl.mutex.Unlock()
CleanupUnlock ==
    /\ cleanupPc = "swept"
    /\ mutex' = "none"
    /\ cleanupNow' = 0
    /\ before' = EmptyRegistry
    /\ cleanupPc' = "wait"
    /\ UNCHANGED <<clock, limit, window, requests, pc, key, now, validRequests,
                   result, calls, log>>
    /\ UNCHANGED rateLimited
    /\ UNCHANGED plVars

\* --------------------------------------------------------- pipeline helpers
\* numWorkers := 8
numWorkers == 8

\* a *string field: nil, or a pointer to a string (strings are character sequences)
NilStr == [nil |-> TRUE, val |-> <<>>]
PtrTo(str) == [nil |-> FALSE, val |-> str]

\* models.Task, restricted to the fields the pipelines read
TaskPool ==
    << [TaskName |-> <<"A", "b">>, Description |-> NilStr, Category |-> PtrTo(<<"W">>)],
       [TaskName |-> <<"c">>, Description |-> PtrTo(<<"x", "a", "B">>), Category |-> PtrTo(<<"H">>)],
       [TaskName |-> <<"b", "a">>, Description |-> PtrTo(<<>>), Category |-> PtrTo(<<>>)],
       [TaskName |-> <<"c", "A">>, Description |-> NilStr, Category |-> NilStr],
       [TaskName |-> <<"a", "b", "c">>, Description |-> PtrTo(<<"c">>), Category |-> PtrTo(<<"W">>)] >>

Queries == { <<>>, <<"a", "B">> }

\* the filters a search can carry: category, "" when not supplied
NoFilters == [category |-> <<>>]
Filters == { NoFilters, [category |-> <<"W">>] }

\* the repository's answers: the sub-lists of TaskPool (rows in order) of bounded length
RECURSIVE Pick(_, _)
Pick(idx, n) ==
    IF n > Len(TaskPool) THEN <<>>
    ELSE IF n \in idx THEN <<TaskPool[n]>> \o Pick(idx, n + 1)
    ELSE Pick(idx, n + 1)

TaskLists == {Pick(idx, 1) : idx \in {x \in SUBSET (1..Len(TaskPool)) : Cardinality(x) <= MaxTasks}}

\* strings.ToLower on the characters the model uses
LowerChar(c) == IF c = "A" THEN "a" ELSE IF c = "B" THEN "b" ELSE c
ToLower(str) == [i \in 1..Len(str) |-> LowerChar(str[i])]

\* strings.Contains
Contains(str, sub) ==
    \E i \in 0..(Len(str) - Len(sub)) : SubSeq(str, i + 1, i + Len(sub)) = sub

\* the worker's predicate of SearchTasks
Match(task, q) ==
    IF q # <<>>
    THEN IF Contains(ToLower(task.TaskName), ToLower(q)) THEN TRUE
         ELSE IF ~task.Description.nil /\ Contains(ToLower(task.Description.val), ToLower(q))
              THEN TRUE
              ELSE FALSE
    ELSE TRUE

\* the category filter of the search handler:
\* category != "" && (task.Category == nil || *task.Category != category) skips the task
CategoryFilter(task, category) ==
    ~(category # <<>> /\ (task.Category.nil \/ task.Category.val # category))

HasCategoryNilOnly(task) == ~task.Category.nil
\* the worker's test of GetUserCategories: task.Category != nil && *task.Category != ""
HasCategory(task) == ~task.Category.nil /\ task.Category.val # <<>>

\* the orders in which ranging over a map can list its keys
RECURSIVE Orderings(_)
Orderings(S) ==
    IF S = {} THEN { <<>> }
    ELSE UNION {{<<x>> \o rest : rest \in Orderings(S \ {x})} : x \in S}

\* ----------------------------------------------------------------- pipelines
\* The worker goroutines all run the same closure and have no identity of
\* their own: the pool is the bag of their local states (position, held task).
AtRecv == [pc |-> "recv", task |-> 0]
AtDone == [pc |-> "done", task |-> 0]
AtExit == [pc |-> "exit", task |-> 0]
Holding(p, i) == [pc |-> p, task |-> i]

\* one worker leaves local state from for local state to
Step(pool, from, to) == (pool (-) SetToBag({from})) (+) SetToBag({to})

\* nothing of a service method has been started
PipelineOff ==
    /\ mainPc = "start"
    /\ tasks = <<>>
    /\ waited = 0
    /\ fetchPc = "off"
    /\ workers = EmptyBag
    /\ prodPc = "off"
    /\ prodIdx = 0
    /\ taskChanClosed = FALSE
    /\ collPc = "off"
    /\ collTask = 0
    /\ finished = 0
    /\ resultChanClosed = FALSE
    /\ filteredTasks = <<>>
    /\ categoryMap = {}
    /\ mu = FALSE
    /\ ret = <<>>
    /\ evals = [i \in 1..Len(stored) |-> 0]

InitPipeline ==
    /\ op \in {"SearchTasks", "GetUserCategories"}
    /\ stored \in TaskLists
    /\ fetchFails \in BOOLEAN
    /\ query \in (IF op = "SearchTasks" THEN Queries ELSE { <<>> })
    /\ filters \in (IF op = "SearchTasks" THEN Filters ELSE { NoFilters })
    /\ PipelineOff

\* the test err != nil on what the repository call returned
ErrIgnored == FALSE
ErrNotNil == fetchFails

\* SearchTasks: tasks, _, err := s.taskRepo.GetTasksByUserIDPaginated(...); if err != nil return
SearchFetch ==
    /\ op = "SearchTasks"
    /\ mainPc = "start"
    /\ IF ErrNotNil
       THEN /\ mainPc' = "failed"
            /\ UNCHANGED tasks
       ELSE /\ mainPc' = "spawn"
            /\ tasks' = stored
    /\ UNCHANGED <<op, stored, fetchFails, query, filters, waited, fetchPc, workers, prodPc,
                   prodIdx, taskChanClosed, collPc, collTask, finished,
                   resultChanClosed, filteredTasks, categoryMap, mu, ret, evals>>
    /\ UNCHANGED rlVars

\* GetUserCategories: go func() { fetch ... }() and the caller reaches its select
CategoriesStartFetch ==
    /\ op = "GetUserCategories"
    /\ mainPc = "start"
    /\ fetchPc' = "run"
    /\ mainPc' = "select"
    /\ UNCHANGED <<op, stored, fetchFails, query, filters, tasks, waited, workers, prodPc,
                   prodIdx, taskChanClosed, collPc, collTask, finished,
                   resultChanClosed, filteredTasks, categoryMap, mu, ret, evals>>
    /\ UNCHANGED rlVars

\* the fetch goroutine: the repository call returns
FetchRun ==
    /\ fetchPc = "run"
    /\ fetchPc' = IF ErrNotNil THEN "sendErr" ELSE "sendTasks"
    /\ UNCHANGED <<op, stored, fetchFails, query, filters, mainPc, tasks, waited, workers,
                   prodPc, prodIdx, taskChanClosed, collPc, collTask, finished,
                   resultChanClosed, filteredTasks, categoryMap, mu, ret, evals>>
    /\ UNCHANGED rlVars

\* tasksChan <- tasks meets case t := <-tasksChan
FetchSendTasks ==
    /\ fetchPc = "sendTasks"
    /\ mainPc = "select"
    /\ tasks' = stored
    /\ mainPc' = "spawn"
    /\ fetchPc' = "exit"
    /\ UNCHANGED <<op, stored, fetchFails, query, filters, waited, workers, prodPc, prodIdx,
                   taskChanClosed, collPc, collTask, finished, resultChanClosed,
                   filteredTasks, categoryMap, mu, ret, evals>>
    /\ UNCHANGED rlVars

\* a handoff in which the caller takes the error for a task list
FetchSendErrAsTasks ==
    /\ fetchPc = "sendErr"
    /\ mainPc = "select"
    /\ mainPc' = "spawn"
    /\ fetchPc' = "exit"
    /\ UNCHANGED <<op, stored, fetchFails, query, filters, tasks, waited, workers, prodPc,
                   prodIdx, taskChanClosed, collPc, collTask, finished,
                   resultChanClosed, filteredTasks, categoryMap, mu, ret, evals>>
    /\ UNCHANGED rlVars

\* errChan <- err meets case err := <-errChan: return nil, error
FetchSendErr ==
    /\ fetchPc = "sendErr"
    /\ mainPc = "select"
    /\ mainPc' = "failed"
    /\ fetchPc' = "exit"
    /\ UNCHANGED <<op, stored, fetchFails, query, filters, tasks, waited, workers, prodPc,
                   prodIdx, taskChanClosed, collPc, collTask, finished,
                   resultChanClosed, filteredTasks, categoryMap, mu, ret, evals>>
    /\ UNCHANGED rlVars

\* the go statements: numWorkers workers, the producer and (SearchTasks) the collector
Spawn ==
    /\ mainPc = "spawn"
    /\ workers' = [s \in {AtRecv} |-> numWorkers]
    /\ prodPc' = "send"
    /\ prodIdx' = 1
    /\ collPc' = IF op = "SearchTasks" THEN "select" ELSE "off"
    /\ mainPc' = "wait"
    /\ UNCHANGED <<op, stored, fetchFails, query, filters, tasks, waited, fetchPc,
                   taskChanClosed, collTask, finished, resultChanClosed, filteredTasks,
                   categoryMap, mu, ret, evals>>
    /\ UNCHANGED rlVars

\* where a worker stands after it has received and evaluated task i
AfterEval(i) ==
    IF op = "SearchTasks"
    THEN IF Match(tasks[i], query) THEN Holding("send", i) ELSE AtRecv
    ELSE IF HasCategory(tasks[i]) THEN Holding("lock", i) ELSE AtRecv

NextIndexSkipping(i) == i + 2
\* the index the producer's range loop reaches after sending tasks[i]
NextIndex(i) == i + 1

\* taskChan <- task meets a worker's for task := range taskChan; the worker
\* evaluates its predicate on the task
Dispatch ==
    /\ BagIn(AtRecv, workers)
    /\ prodPc = "send"
    /\ prodIdx <= Len(tasks)
    /\ evals' = [evals EXCEPT ![prodIdx] = @ + 1]
    /\ workers' = Step(workers, AtRecv, AfterEval(prodIdx))
    /\ prodIdx' = NextIndex(prodIdx)
    /\ UNCHANGED <<op, stored, fetchFails, query, filters, mainPc, tasks, waited, fetchPc,
                   prodPc, taskChanClosed, collPc, collTask, finished,
                   resultChanClosed, filteredTasks, categoryMap, mu, ret>>
    /\ UNCHANGED rlVars

\* a producer that ends without closing taskChan
ProducerNeverCloses ==
    /\ prodPc = "send"
    /\ prodIdx > Len(tasks)
    /\ taskChanClosed' = FALSE
    /\ prodPc' = "exit"
    /\ UNCHANGED <<op, stored, fetchFails, query, filters, mainPc, tasks, waited, fetchPc,
                   workers, prodIdx, collPc, collTask, finished, resultChanClosed,
                   filteredTasks, categoryMap, mu, ret, evals>>
    /\ UNCHANGED rlVars

\* the producer: close(taskChan) after the range loop
ProducerClose ==
    /\ prodPc = "send"
    /\ prodIdx > Len(tasks)
    /\ taskChanClosed' = TRUE
    /\ prodPc' = "exit"
    /\ UNCHANGED <<op, stored, fetchFails, query, filters, mainPc, tasks, waited, fetchPc,
                   workers, prodIdx, collPc, collTask, finished, resultChanClosed,
                   filteredTasks, categoryMap, mu, ret, evals>>
    /\ UNCHANGED rlVars

\* a worker's range loop ends on the closed taskChan
WorkerRangeEnd ==
    /\ BagIn(AtRecv, workers)
    /\ taskChanClosed
    /\ workers' = Step(workers, AtRecv, AtDone)
    /\ UNCHANGED <<op, stored, fetchFails, query, filters, mainPc, tasks, waited, fetchPc,
                   prodPc, prodIdx, taskChanClosed, collPc, collTask, finished,
                   resultChanClosed, filteredTasks, categoryMap, mu, ret, evals>>
    /\ UNCHANGED rlVars

\* SearchTasks: resultChan <- task meets the collector's case t := <-resultChan
SendResult(i) ==
    /\ BagIn(Holding("send", i), workers)
    /\ collPc = "select"
    /\ ~resultChanClosed
    /\ collTask' = i
    /\ collPc' = "append"
    /\ workers' = Step(workers, Holding("send", i), AtRecv)
    /\ UNCHANGED <<op, stored, fetchFails, query, filters, mainPc, tasks, waited, fetchPc,
                   prodPc, prodIdx, taskChanClosed, finished, resultChanClosed,
                   filteredTasks, categoryMap, mu, ret, evals>>
    /\ UNCHANGED rlVars

\* the collector: filteredTasks = append(filteredTasks, t)
CollectorAppend ==
    /\ collPc = "append"
    /\ filteredTasks' = Append(filteredTasks, collTask)
    /\ collTask' = 0
    /\ collPc' = "select"
    /\ UNCHANGED <<op, stored, fetchFails, query, filters, mainPc, tasks, waited, fetchPc,
                   workers, prodPc, prodIdx, taskChanClosed, finished,
                   resultChanClosed, categoryMap, mu, ret, evals>>
    /\ UNCHANGED rlVars

\* a collector that closes resultChan at the first completion signal
DoneToCollectorEarly ==
    /\ BagIn(AtDone, workers)
    /\ collPc = "select"
    /\ workers' = Step(workers, AtDone, AtExit)
    /\ finished' = finished + 1
    /\ IF finished' >= 1
       THEN /\ resultChanClosed' = TRUE
            /\ collPc' = "exit"
       ELSE UNCHANGED <<resultChanClosed, collPc>>
    /\ UNCHANGED <<op, stored, fetchFails, query, filters, mainPc, tasks, waited, fetchPc,
                   prodPc, prodIdx, taskChanClosed, collTask, filteredTasks,
                   categoryMap, mu, ret, evals>>
    /\ UNCHANGED rlVars

\* doneChan <- struct{}{} meets the collector's case <-doneChan
DoneToCollector ==
    /\ BagIn(AtDone, workers)
    /\ collPc = "select"
    /\ workers' = Step(workers, AtDone, AtExit)
    /\ finished' = finished + 1
    /\ IF finished' = numWorkers
       THEN /\ resultChanClosed' = TRUE
            /\ collPc' = "exit"
       ELSE UNCHANGED <<resultChanClosed, collPc>>
    /\ UNCHANGED <<op, stored, fetchFails, query, filters, mainPc, tasks, waited, fetchPc,
                   prodPc, prodIdx, taskChanClosed, collTask, filteredTasks,
                   categoryMap, mu, ret, evals>>
    /\ UNCHANGED rlVars

\* doneChan <- struct{}{} meets the caller's <-doneChan of the wait loop
DoneToCaller ==
    /\ BagIn(AtDone, workers)
    /\ mainPc = "wait"
    /\ waited < numWorkers
    /\ workers' = Step(workers, AtDone, AtExit)
    /\ waited' = waited + 1
    /\ UNCHANGED <<op, stored, fetchFails, query, filters, mainPc, tasks, fetchPc, prodPc,
                   prodIdx, taskChanClosed, collPc, collTask, finished,
                   resultChanClosed, filteredTasks, categoryMap, mu, ret, evals>>
    /\ UNCHANGED rlVars

\* SearchTasks: the wait loop is over; return filteredTasks, nil
SearchReturn ==
    /\ op = "SearchTasks"
    /\ mainPc = "wait"
    /\ waited = numWorkers
    /\ ret' = filteredTasks
    /\ mainPc' = "returned"
    /\ UNCHANGED <<op, stored, fetchFails, query, filters, tasks, waited, fetchPc, workers,
                   prodPc, prodIdx, taskChanClosed, collPc, collTask, finished,
                   resultChanClosed, filteredTasks, categoryMap, mu, evals>>
    /\ UNCHANGED rlVars

\* GetUserCategories: mu.Lock()
CategoryLock(i) ==
    /\ BagIn(Holding("lock", i), workers)
    /\ ~mu
    /\ mu' = TRUE
    /\ workers' = Step(workers, Holding("lock", i), Holding("write", i))
    /\ UNCHANGED <<op, stored, fetchFails, query, filters, mainPc, tasks, waited, fetchPc,
                   prodPc, prodIdx, taskChanClosed, collPc, collTask, finished,
                   resultChanClosed, filteredTasks, categoryMap, ret, evals>>
    /\ UNCHANGED rlVars

\* GetUserCategories: categoryMap[*task.Category] = true
CategoryWrite(i) ==
    /\ BagIn(Holding("write", i), workers)
    /\ categoryMap' = categoryMap \cup {tasks[i].Category.val}
    /\ workers' = Step(workers, Holding("write", i), Holding("unlock", i))
    /\ UNCHANGED <<op, stored, fetchFails, query, filters, mainPc, tasks, waited, fetchPc,
                   prodPc, prodIdx, taskChanClosed, collPc, collTask, finished,
                   resultChanClosed, filteredTasks, mu, ret, evals>>
    /\ UNCHANGED rlVars

\* GetUserCategories: mu.Unlock() and back to the range loop
CategoryUnlock(i) ==
    /\ BagIn(Holding("unlock", i), workers)
    /\ mu' = FALSE
    /\ workers' = Step(workers, Holding("unlock", i), AtRecv)
    /\ UNCHANGED <<op, stored, fetchFails, query, filters, mainPc, tasks, waited, fetchPc,
                   prodPc, prodIdx, taskChanClosed, collPc, collTask, finished,
                   resultChanClosed, filteredTasks, categoryMap, ret, evals>>
    /\ UNCHANGED rlVars

\* GetUserCategories: the wait loop is over; the categories are listed in map order
CategoriesReturn ==
    /\ op = "GetUserCategories"
    /\ mainPc = "wait"
    /\ waited = numWorkers
    /\ ret' \in Orderings(categoryMap)
    /\ mainPc' = "returned"
    /\ UNCHANGED <<op, stored, fetchFails, query, filters, tasks, waited, fetchPc, workers,
                   prodPc, prodIdx, taskChanClosed, collPc, collTask, finished,
                   resultChanClosed, filteredTasks, categoryMap, mu, evals>>
    /\ UNCHANGED rlVars

NextPipeline ==
    \/ SearchFetch
    \/ CategoriesStartFetch
    \/ FetchRun
    \/ FetchSendTasks
    \/ FetchSendErr
    \/ Spawn
    \/ Dispatch
    \/ ProducerClose
    \/ WorkerRangeEnd
    \/ \E i \in 1..Len(tasks) : SendResult(i)
    \/ CollectorAppend
    \/ DoneToCollector
    \/ DoneToCaller
    \/ SearchReturn
    \/ \E i \in 1..Len(tasks) : CategoryLock(i)
    \/ \E i \in 1..Len(tasks) : CategoryWrite(i)
    \/ \E i \in 1..Len(tasks) : CategoryUnlock(i)
    \/ CategoriesReturn

NextRL ==
    \/ Tick
    \/ \E p \in Callers, k \in Keys : Call(p, k)
    \/ \E p \in Callers : Lock(p)
    \/ \E p \in Callers : Filter(p)
    \/ \E p \in Callers : Check(p)
    \/ \E p \in Callers : Admit(p)
    \/ \E p \in Callers : Unlock(p)
    \/ \E p \in Callers, k \in Keys : Route(p, k)
    \/ \E p \in Callers : Finish(p)
    \/ CleanupSweep
    \/ CleanupUnlock

\* the limiter alone: no service method runs
NoPipeline ==
    /\ op = "SearchTasks"
    /\ stored = <<>>
    /\ fetchFails = FALSE
    /\ query = <<>>
    /\ filters = NoFilters
    /\ PipelineOff

Init == InitRL /\ NoPipeline

Spec == Init /\ [][NextRL]_vars

\* the limiter under fair scheduling: time passes, every goroutine that can
\* step does so, and a goroutine that calls rl.mutex.Lock() gets the mutex if
\* it is free again and again
InitFair == Init /\ rateLimited

\* the client whose requests the callers carry in the fair runs
FairClient == "clientA"

NextFair ==
    \/ Tick
    \/ \E p \in Callers : Call(p, FairClient)
    \/ \E p \in Callers : Lock(p)
    \/ \E p \in Callers : Filter(p)
    \/ \E p \in Callers : Check(p)
    \/ \E p \in Callers : Admit(p)
    \/ \E p \in Callers : Unlock(p)
    \/ \E p \in Callers : Finish(p)
    \/ CleanupSweep
    \/ CleanupUnlock

FairSpec ==
    /\ InitFair
    /\ [][NextFair]_vars
    /\ WF_vars(Tick)
    /\ SF_vars(CleanupSweep)
    /\ WF_vars(CleanupUnlock)
    /\ \A p \in Callers :
           /\ SF_vars(Lock(p))
           /\ WF_vars(Filter(p) \/ Check(p) \/ Admit(p) \/ Unlock(p))
           /\ WF_vars(Finish(p))

\* one call of a service method alone: the limiter is left as constructed
InitService == InitPipeline /\ InitRL /\ limit = 1 /\ window = 1 /\ rateLimited

PipelineSpec == InitService /\ [][NextPipeline]_vars

\* one call of GetUserCategories under fair scheduling: a goroutine that can
\* step is eventually run
InitCategories == InitService /\ op = "GetUserCategories"

NextCategories ==
    \/ CategoriesStartFetch
    \/ FetchRun
    \/ FetchSendTasks
    \/ FetchSendErr
    \/ Spawn
    \/ Dispatch
    \/ ProducerClose
    \/ WorkerRangeEnd
    \/ DoneToCaller
    \/ \E i \in 1..Len(tasks) : CategoryLock(i)
    \/ \E i \in 1..Len(tasks) : CategoryWrite(i)
    \/ \E i \in 1..Len(tasks) : CategoryUnlock(i)
    \/ CategoriesReturn

CategoriesFairSpec ==
    /\ InitCategories
    /\ [][NextCategories]_vars
    /\ WF_vars(NextCategories)

\* ------------------------------------------------- RateLimiter: properties
\* the trailing window that ends at instant t: later than t - window, up to t
InWindow(r, t) == r > t - window /\ r <= t

\* how many stored timestamps of key k lie in the window that ends at t
InWindowCount(reg, k, t) ==
    Cardinality({i \in 1..Len(Lookup(reg, k)) : InWindow(Lookup(reg, k)[i], t)})

\* the positions of Allow at which the caller is between Lock and Unlock
InAllow == {"filter", "check", "append", "unlock"}

\* the decided calls of key k, as indices of log
CallsOf(k) == {i \in DOMAIN log : log[i].key = k}

\* a call has just been decided and logged (log changes at no other point)
JustDecided == \E p \in Callers : pc[p] = "unlock"

\* the admitted calls of key k whose instant lies in the window that ends at t
AdmittedInWindow(k, t) == {i \in CallsOf(k) : log[i].ok /\ InWindow(log[i].at, t)}

\* C1: Allow(key) returns false exactly when the number of timestamps of key
\* inside the trailing window at the instant of the call is >= limit; otherwise
\* it returns true and the in-window count of key grows by exactly one.
C1_AllowDecision ==
    \A p \in Callers :
        pc[p] = "unlock" =>
            LET n == InWindowCount(before, key[p], now[p])
            IN  /\ (result[p] = FALSE) <=> (n >= limit)
                /\ result[p] = TRUE => InWindowCount(requests, key[p], now[p]) = n + 1

C1_Witness ==
    \E p \in Callers :
        /\ pc[p] = "unlock"
        /\ result[p] = FALSE
        /\ window >= 2
        /\ InWindowCount(before, key[p], now[p]) >= limit
        /\ \E i \in DOMAIN Lookup(before, key[p]) : Lookup(before, key[p])[i] < now[p]

\* C2: for every key and every instant T, at most limit calls of that key were
\* admitted at instants inside the trailing window that ends at T.
C2_WindowCap ==
    JustDecided =>
        \A k \in Keys : \A T \in 0..MaxTime :
            Cardinality(AdmittedInWindow(k, T)) <= limit

C2_Witness ==
    \E k \in Keys :
        /\ Cardinality({i \in CallsOf(k) : log[i].ok}) > limit
        /\ \E i \in CallsOf(k) : ~log[i].ok
        /\ \E T \in 0..MaxTime : Cardinality(AdmittedInWindow(k, T)) = limit

\* C3: the check of the in-window count and the append are one atomic step:
\* while a caller is inside Allow nobody else is inside Allow or sweeping, and a
\* caller that observed room still finds room when it appends.
C3_AtomicCheckAndAppend ==
    \A p \in Callers :
        pc[p] \in InAllow =>
            /\ mutex = p
            /\ cleanupPc = "wait"
            /\ \A q \in Callers \ {p} : pc[q] \notin InAllow
            /\ pc[p] = "append" =>
                   /\ requests = before
                   /\ InWindowCount(requests, key[p], now[p]) < limit

C3_Witness ==
    \E p \in Callers : \E q \in Callers \ {p} :
        /\ pc[p] = "append"
        /\ pc[q] = "lock"
        /\ key[q] = key[p]
        /\ InWindowCount(requests, key[p], now[p]) = limit - 1

\* the decided calls of key k in the order they were decided
RECURSIVE KeyLog(_, _)
KeyLog(k, n) ==
    IF n = 0 THEN <<>>
    ELSE IF log[n].key = k THEN Append(KeyLog(k, n - 1), log[n])
    ELSE KeyLog(k, n - 1)

\* C4: for a previously unseen key, limit + 1 calls inside one window return
\* true limit times and then false; a later call made more than one window
\* after the last admitted call returns true.
C4_BurstThenRecover ==
    JustDecided =>
        \A k \in Keys :
            LET kl == KeyLog(k, Len(log))
            IN  \A n \in 1..Len(kl) :
                    /\ (n <= limit + 1 /\ kl[n].at - kl[1].at < window)
                           => (kl[n].ok <=> n <= limit)
                    /\ (/\ \E j \in 1..(n - 1) : kl[j].ok
                        /\ \A j \in 1..(n - 1) : kl[j].ok => kl[n].at - kl[j].at > window)
                           => kl[n].ok

C4_Witness ==
    \E k \in Keys :
        LET kl == KeyLog(k, Len(log))
        IN  /\ limit >= 2
            /\ Len(kl) = limit + 2
            /\ kl[limit + 1].at - kl[1].at < window
            /\ \A n \in 1..limit : kl[n].ok
            /\ ~kl[limit + 1].ok
            /\ kl[limit + 2].at - kl[limit].at > window
            /\ kl[limit + 2].ok

\* C5: keys are isolated: Allow(k1) changes only the stored sequence of k1, and
\* the result of every call is decided by the earlier admitted calls of its own
\* key alone, whatever calls of other keys are interleaved.
C5_KeyIsolation ==
    /\ \A p \in Callers :
           pc[p] = "unlock" =>
               \A k \in Keys \ {key[p]} :
                   /\ (k \in DOMAIN requests) <=> (k \in DOMAIN before)
                   /\ Lookup(requests, k) = Lookup(before, k)
    /\ JustDecided =>
           \A i \in DOMAIN log :
               log[i].ok <=>
                   Cardinality({j \in 1..(i - 1) :
                                   /\ log[j].key = log[i].key
                                   /\ log[j].ok
                                   /\ InWindow(log[j].at, log[i].at)}) < limit

C5_Witness ==
    \E p \in Callers : \E k \in Keys \ {key[p]} :
        /\ pc[p] = "unlock"
        /\ result[p] = TRUE
        /\ InWindowCount(requests, k, now[p]) = limit
        /\ \E i \in CallsOf(k) : ~log[i].ok /\ log[i].at = now[p]

\* C6: the first Allow call for a key that is not in the registry (never seen,
\* or removed by the sweeper) is admitted and creates the key's entry holding
\* exactly that one timestamp.
C6_FirstCallAdmitted ==
    \A p \in Callers :
        (pc[p] = "unlock" /\ key[p] \notin DOMAIN before) =>
            /\ result[p] = TRUE
            /\ key[p] \in DOMAIN requests
            /\ requests[key[p]] = <<now[p]>>

C6_Witness ==
    \E p \in Callers :
        /\ pc[p] = "unlock"
        /\ key[p] \notin DOMAIN before
        /\ result[p] = TRUE
        /\ Cardinality({i \in CallsOf(key[p]) : log[i].ok}) >= 2

\* --------------------------------------------------- pipelines: properties
\* the service method has come back to its caller
Returned == mainPc \in {"returned", "failed"}

\* the records of tasks that satisfy the search predicate
Matching == {i \in 1..Len(tasks) : Match(tasks[i], query)}

\* every worker has sent its completion signal and the signal was received
AllWorkersSignaled == CopiesIn(AtExit, workers) = numWorkers

\* C7: when SearchTasks returns, the returned collection is set-equal to the
\* matching records of the task set: none missing, none twice, none that does
\* not match.
C7_SearchResultExact ==
    (op = "SearchTasks" /\ mainPc = "returned") =>
        /\ {ret[n] : n \in 1..Len(ret)} = Matching
        /\ \A m, n \in 1..Len(ret) : ret[m] = ret[n] => m = n

\* C8: SearchTasks returns for every finite input: its caller is never left
\* waiting in a state in which no goroutine can take a step.
C8_SearchReturns ==
    op = "SearchTasks" => (Returned \/ ENABLED NextPipeline)

\* C9: on an empty task set SearchTasks does not block and returns an empty
\* result.
C9_EmptySearchReturns ==
    (op = "SearchTasks" /\ stored = <<>> /\ ~fetchFails) =>
        \/ ENABLED NextPipeline
        \/ mainPc = "returned" /\ ret = <<>>

\* C10: in both pipelines the producer hands every record to exactly one
\* worker, which evaluates it once: no record is evaluated twice, and once all
\* workers have signaled completion every record has been evaluated.
C10_EvaluatedOnce ==
    /\ \A i \in DOMAIN evals : evals[i] <= 1
    /\ AllWorkersSignaled => \A i \in 1..Len(tasks) : evals[i] = 1

C10_Witness ==
    /\ AllWorkersSignaled
    /\ Len(tasks) >= 2
    /\ \A i \in 1..Len(tasks) : evals[i] = 1
    /\ \E i \in 1..Len(tasks) : i \notin Matching

\* C11: when the retrieval of the user's tasks fails, SearchTasks and
\* GetUserCategories start no worker, no producer and no collector, and the
\* only way the call ends is the return of the error.
C11_FailFast ==
    fetchFails =>
        /\ workers = EmptyBag
        /\ prodPc = "off"
        /\ collPc = "off"
        /\ mainPc \in {"start", "select", "failed"}
        /\ ENABLED NextPipeline \/ mainPc = "failed"

C11_Witness ==
    /\ fetchFails
    /\ op = "GetUserCategories"
    /\ mainPc = "failed"
    /\ fetchPc = "exit"
    /\ stored # <<>>

\* C12: whenever Allow rejects a request the middleware answers with the
\* too-many-requests status and a retry-after value equal to the configured
\* window in seconds (the unit of the model's clock), for every window.
C12_RetryAfterIsWindow ==
    \A p \in Callers :
        pc[p] = "aborted" =>
            /\ DenyResponse.status = 429
            /\ DenyResponse.retryAfter = window

\* C13: a request is in a route handler only if Allow was called for it and
\* returned true; a request for which Allow returned false is aborted.
C13_AdmissionBeforeRouting ==
    \A p \in Callers :
        /\ pc[p] = "handler" => result[p]
        /\ pc[p] = "aborted" => ~result[p]

\* C14: a task is in the result of taskService.SearchTasks only if it
\* satisfies the free-text query and every supplied equality filter.
C14_FiltersNarrow ==
    (op = "SearchTasks" /\ mainPc = "returned") =>
        \A n \in 1..Len(ret) :
            /\ Match(tasks[ret[n]], query)
            /\ CategoryFilter(tasks[ret[n]], filters.category)

\* the distinct non-empty category values present in the fetched tasks
CategoriesPresent ==
    {tasks[i].Category.val : i \in {j \in 1..Len(tasks) : ~tasks[j].Category.nil}} \ { <<>> }

\* the local states of the workers that are between mu.Lock() and mu.Unlock()
InMutex == {w \in BagToSet(workers) : w.pc \in {"write", "unlock"}}

\* C15: GetUserCategories returns exactly the distinct non-empty categories of
\* the tasks, each once, under every interleaving of the 8 workers; a worker
\* writes the accumulator only while it alone holds the mutex, and the
\* accumulator is read only after every worker has signaled completion.
C15_CategoriesExact ==
    op = "GetUserCategories" =>
        /\ Cardinality(InMutex) <= 1
        /\ \A w \in InMutex : CopiesIn(w, workers) = 1
        /\ mu <=> InMutex # {}
        /\ mainPc = "returned" =>
               /\ AllWorkersSignaled
               /\ {ret[n] : n \in 1..Len(ret)} = CategoriesPresent
               /\ \A m, n \in 1..Len(ret) : ret[m] = ret[n] => m = n

C15_Witness ==
    /\ op = "GetUserCategories"
    /\ mainPc = "returned"
    /\ Len(ret) = 2
    /\ Cardinality({i \in 1..Len(tasks) : tasks[i].Category.val # <<>>}) = 3

\* the timestamps a sequence holds
Elems(seq) == {seq[n] : n \in 1..Len(seq)}

\* C16 as stated: the lower bound of the window is inclusive, a stored
\* timestamp equal to now - window still counts at the Allow call made at now.
C16_InclusiveLowerBound ==
    \A p \in Callers :
        pc[p] = "check" =>
            \A r \in Elems(Lookup(requests, key[p])) :
                r = now[p] - window => r \in Elems(validRequests[p])

\* C16 amended: the lower bound of the window is exclusive. At an Allow call
\* made at now, a stored timestamp counts exactly when it is later than
\* now - window; a timestamp equal to now - window does not count and is not
\* in the sequence an admitted call stores.
C16_ExclusiveLowerBound ==
    \A p \in Callers :
        /\ pc[p] \in {"check", "append"} =>
               \A r \in Elems(Lookup(requests, key[p])) :
                   r \in Elems(validRequests[p]) <=> r > now[p] - window
        /\ (pc[p] = "unlock" /\ result[p]) =>
               \A r \in Elems(Lookup(requests, key[p])) : r > now[p] - window

C16_Witness ==
    \E p \in Callers :
        /\ pc[p] = "check"
        /\ now[p] - window \in Elems(Lookup(requests, key[p]))
        /\ Len(validRequests[p]) = limit - 1
        /\ Len(Lookup(requests, key[p])) = limit

\* C17 as stated: after the pruning of an Allow call and after the pruning of
\* a sweep, made at now, every timestamp still stored is >= now - window.
C17_PrunedToWindow ==
    /\ \A p \in Callers :
           pc[p] = "unlock" =>
               \A r \in Elems(Lookup(requests, key[p])) : r >= now[p] - window
    /\ cleanupPc = "swept" =>
           \A k \in Keys :
               \A r \in Elems(Lookup(requests, k)) : r >= cleanupNow - window

\* C17 amended: after the pruning of an Allow call at now (admitted or
\* rejected) every timestamp still stored for the key is later than
\* now - window; after a sweep at now every timestamp still stored, for any
\* key, is later than now - 2 x window.
C17_PrunedToCutoff ==
    /\ \A p \in Callers :
           pc[p] = "unlock" =>
               \A r \in Elems(Lookup(requests, key[p])) : r > now[p] - window
    /\ cleanupPc = "swept" =>
           \A k \in Keys :
               \A r \in Elems(Lookup(requests, k)) : r > cleanupNow - window * 2

C17_Witness ==
    /\ cleanupPc = "swept"
    /\ \E k \in Keys :
           \E r \in Elems(Lookup(requests, k)) :
               r < cleanupNow - window /\ r > cleanupNow - window * 2

\* C18: a rejected Allow call records nothing: the registry is as it was
\* when the call took the lock; so rejected attempts never prolong the
\* blocking, a call is admitted as soon as fewer than limit admitted calls of
\* its key are left in the window, however many attempts were rejected.
C18_RejectedNotRecorded ==
    /\ \A p \in Callers :
           (pc[p] = "unlock" /\ ~result[p]) => requests = before
    /\ JustDecided =>
           LET n == Len(log)
           IN  Cardinality(AdmittedInWindow(log[n].key, log[n].at) \ {n}) < limit
                   => log[n].ok

C18_Witness ==
    /\ JustDecided
    /\ \E i, j \in DOMAIN log :
           LET n == Len(log)
           IN  /\ i < j /\ j < n
               /\ log[i].key = log[n].key /\ log[j].key = log[n].key
               /\ log[i].ok /\ ~log[j].ok /\ log[n].ok
               /\ log[n].at = log[i].at + window
               /\ log[j].at > log[i].at
               /\ limit = 1

\* C19: SearchTasks returns only after every worker has signaled completion
\* and every match pushed to the result channel is in the accumulated result;
\* the collector cannot append any more when the caller reads the result.
C19_ReturnAfterCollection ==
    (op = "SearchTasks" /\ mainPc = "returned") =>
        /\ AllWorkersSignaled
        /\ collPc # "append"
        /\ Len(ret) = Cardinality(Matching)

\* C20: a sweep pass at now removes every key none of whose timestamps is
\* later than now - 2 x window and no key that has such a timestamp; a key
\* with a timestamp inside the current window is never removed.
C20_SweepRemoval ==
    cleanupPc = "swept" =>
        /\ DOMAIN requests \subseteq DOMAIN before
        /\ \A k \in DOMAIN before :
               /\ k \in DOMAIN requests <=>
                      \E r \in Elems(before[k]) : r > cleanupNow - window * 2
               /\ InWindowCount(before, k, cleanupNow) > 0 => k \in DOMAIN requests

C20_Witness ==
    /\ cleanupPc = "swept"
    /\ DOMAIN before = Keys
    /\ \E k \in Keys :
           /\ DOMAIN requests = {k}
           /\ InWindowCount(before, k, cleanupNow) = 0

\* the registry a limiter whose sweeper never runs holds after the first n
\* logged calls (same keys, same instants)
RECURSIVE NoSweepRegistry(_)
NoSweepRegistry(n) ==
    IF n = 0 THEN EmptyRegistry
    ELSE LET reg == NoSweepRegistry(n - 1)
             v == FilterValid(Lookup(reg, log[n].key), AllowCutoff(log[n].at))
         IN  IF LimitExceeded(v) THEN reg
             ELSE Store(reg, log[n].key, Append(v, log[n].at))

\* what that limiter answers to the n-th logged call
NoSweepResult(n) ==
    ~LimitExceeded(FilterValid(Lookup(NoSweepRegistry(n - 1), log[n].key),
                               AllowCutoff(log[n].at)))

\* C21: the sweep is invisible to admission: every Allow call gets the result
\* it would get, after the same earlier calls, from a limiter whose sweeper
\* never runs, wherever sweep passes are interleaved.
C21_SweepInvisible ==
    JustDecided => log[Len(log)].ok = NoSweepResult(Len(log))

C21_Witness ==
    /\ JustDecided
    /\ Len(log) >= 2
    /\ DOMAIN requests # DOMAIN NoSweepRegistry(Len(log))
    /\ \E i \in DOMAIN log : ~log[i].ok

\* an Allow call for key k is under way
CallFor(k) == \E p \in Callers : key[p] = k

\* the newest timestamp stored for key k
Newest(k) == CHOOSE r \in Elems(requests[k]) : \A q \in Elems(requests[k]) : q <= r

\* C22: a key for which no further Allow call is made is eventually absent
\* from the registry (once the clock can pass its newest timestamp by
\* 2 x window), and an absent key comes back only through an Allow call for it.
C22_EventuallyReclaimed ==
    /\ \A k \in Keys :
           (k \in DOMAIN requests /\ Newest(k) + window * 2 <= MaxTime)
               ~> (k \notin DOMAIN requests \/ CallFor(k))
    /\ [][\A k \in Keys :
              (k \notin DOMAIN requests /\ k \in DOMAIN requests') =>
                  \E p \in Callers : key[p] = k /\ pc[p] = "append"]_vars

C22_Witness ==
    /\ cleanupPc = "swept"
    /\ \E k \in Keys :
           /\ k \in DOMAIN before
           /\ k \notin DOMAIN requests
           /\ ~CallFor(k)
           /\ \E i, j \in CallsOf(k) : i # j

\* C23: every Allow call returns true or false: a caller waiting for the
\* registry lock, with the other callers and the sweeper competing for it,
\* eventually has its answer.
C23_AllowReturns ==
    \A p \in Callers :
        pc[p] = "lock" ~> pc[p] \in {"handler", "aborted"}

C23_Witness ==
    \E p, q \in Callers :
        /\ p # q
        /\ pc[p] = "aborted"
        /\ pc[q] = "lock"
        /\ cleanupPc = "swept"

\* C24: in every reachable registry state no key holds more than limit
\* timestamps.
C24_StoredAtMostLimit ==
    \A k \in DOMAIN requests : Len(requests[k]) <= limit

C24_Witness ==
    /\ limit = 2
    /\ \E k \in DOMAIN requests :
           /\ Len(requests[k]) = limit
           /\ \E i \in CallsOf(k) : ~log[i].ok
           /\ Cardinality({i \in CallsOf(k) : log[i].ok}) > limit

\* C25: a rejected Allow(key) call leaves the whole registry unchanged: the
\* same keys are present as when the call took the lock, key among them, and
\* each maps to the same sequence.
C25_RejectLeavesRegistry ==
    \A p \in Callers :
        (pc[p] = "unlock" /\ ~result[p]) =>
            /\ key[p] \in DOMAIN before
            /\ DOMAIN requests = DOMAIN before
            /\ \A k \in DOMAIN before : requests[k] = before[k]

C25_Witness ==
    \E p \in Callers :
        /\ pc[p] = "unlock"
        /\ ~result[p]
        /\ DOMAIN requests = Keys
        /\ limit = 2
        /\ now[p] > requests[key[p]][1]

\* C26: outside the critical section every key present in the registry maps
\* to a non-empty sequence.
C26_NoEmptySequence ==
    mutex = "none" => \A k \in DOMAIN requests : requests[k] # <<>>

C26_Witness ==
    /\ mutex = "none"
    /\ cleanupPc = "wait"
    /\ \E k \in Keys :
           /\ DOMAIN requests = {k}
           /\ \E i \in DOMAIN log : log[i].key # k /\ log[i].ok

\* C27: when SearchTasks has returned and no goroutine can step any more,
\* every goroutine of the pipeline (workers, producer, collector) has
\* terminated: none is left blocked on a channel.
C27_NoGoroutineLeak ==
    (op = "SearchTasks" /\ mainPc = "returned" /\ ~ENABLED NextPipeline) =>
        /\ AllWorkersSignaled
        /\ prodPc = "exit"
        /\ collPc = "exit"

\* GetUserCategories is over: the caller has returned after exactly 8
\* completion signals, and the fetch goroutine, the producer and the workers
\* have terminated
CategoriesDone ==
    /\ mainPc = "returned"
    /\ waited = numWorkers
    /\ AllWorkersSignaled
    /\ prodPc = "exit"
    /\ taskChanClosed
    /\ fetchPc = "exit"
    /\ \A i \in 1..Len(tasks) : evals[i] = 1

\* C28: on a successful fetch GetUserCategories always returns: the workers
\* drain the work channel, the producer closes it, each worker signals once,
\* the caller receives exactly 8 signals and returns, no goroutine is left.
C28_CategoriesReturns ==
    /\ [](waited <= numWorkers)
    /\ <>(fetchFails \/ CategoriesDone)

C28_Witness ==
    /\ CategoriesDone
    /\ Len(tasks) >= 2
    /\ Cardinality(categoryMap) >= 2

\* C29: in SearchTasks nothing is sent on a closed channel: when taskChan is
\* closed the producer is past its last send, and when resultChan is closed
\* all 8 workers have signaled completion and none is at a result send.
C29_NoSendOnClosed ==
    op = "SearchTasks" =>
        /\ taskChanClosed => (prodPc = "exit" /\ prodIdx > Len(tasks))
        /\ resultChanClosed =>
               /\ AllWorkersSignaled
               /\ finished = numWorkers
               /\ \A w \in BagToSet(workers) : w.pc # "send"

C29_Witness ==
    /\ op = "SearchTasks"
    /\ resultChanClosed
    /\ taskChanClosed
    /\ Len(filteredTasks) >= 2

\* C30: in the fetch handoff the fetch goroutine sends once, on the error
\* channel iff the fetch failed, only while the caller is at its select; the
\* caller waits only while that send is still to come, and it returns the
\* error exactly when the fetch failed.
C30_FetchHandoff ==
    op = "GetUserCategories" =>
        /\ fetchPc \in {"sendErr", "sendTasks"} => mainPc = "select"
        /\ fetchPc = "sendErr" => fetchFails
        /\ fetchPc = "sendTasks" => ~fetchFails
        /\ mainPc = "select" => fetchPc \in {"run", "sendErr", "sendTasks"}
        /\ mainPc = "failed" => (fetchFails /\ fetchPc = "exit")
        /\ mainPc \in {"spawn", "wait", "returned"} =>
               (~fetchFails /\ fetchPc = "exit" /\ tasks = stored)

C30_Witness ==
    /\ op = "GetUserCategories"
    /\ mainPc = "spawn"
    /\ fetchPc = "exit"
    /\ Len(tasks) >= 2

====
